---- MODULE Spec2Model ----
(***************************************************************************)
(* Verification model of the VERITAS trust pipeline.                       *)
(*                                                                         *)
(* Part 1: TrustCalculator (src/src/project/tools/trust_calculator.py).    *)
(* _run is a pure function of four integer scores and a critical_issues    *)
(* string.  Its weighted average is computed in IEEE-754 binary64, so the  *)
(* model carries doubles exactly, as described at "Binary64 arithmetic".   *)
(***************************************************************************)
EXTENDS Integers, Sequences, FiniteSets, TLC

(***************************************************************************)
(* Bounds of the model.                                                    *)
(***************************************************************************)
\* longest critical_issues string that is tried
MaxIssueLen == 2
\* scores are tried within this distance of each threshold of the code
ScoreSpread == 1
\* the logger is followed for this many events
MaxEvents == 3
\* the events that each concurrent writer appends
MaxWrites == 2

(***************************************************************************)
(* Program constants.                                                      *)
(***************************************************************************)
\* TrustCalculatorInput: Field(..., ge=0, le=100)
MinScore == 0
MaxScore == 100
\* "Below this = block"
BLOCK_THRESHOLD == 30
\* "Below this = warn"
WARN_THRESHOLD == 60
\* "Any single score below this = block"
CRITICAL_THRESHOLD == 20
\* _detect_conflicts: "if diff > 40"
CONFLICT_DIFF == 40

\* scores = {"privacy": ..., "bias": ..., "transparency": ..., "ethics": ...}
\* a dict iterates in insertion order
Names == <<"privacy", "bias", "transparency", "ethics">>
Dims == {Names[i] : i \in 1..Len(Names)}

\* str.upper() on the four dimension names
Upper(name) ==
  CASE name = "privacy" -> "PRIVACY"
    [] name = "bias" -> "BIAS"
    [] name = "transparency" -> "TRANSPARENCY"
    [] name = "ethics" -> "ETHICS"

(***************************************************************************)
(* Inputs that are tried.                                                  *)
(***************************************************************************)
Abs(x) == IF x < 0 THEN -x ELSE x

\* the thresholds of the code, around which scores are taken
Anchors == {CRITICAL_THRESHOLD, BLOCK_THRESHOLD, WARN_THRESHOLD}
\* the extremes of the score range and the scores of the documented scenarios
ScenarioScores == {MinScore, 80, 85, 90, MaxScore}
Scores ==
  {s \in MinScore..MaxScore :
     \/ \E a \in Anchors : Abs(s - a) <= ScoreSpread
     \/ s \in ScenarioScores}

\* characters of a critical_issues string: one whitespace, one other
Chars == {" ", "x"}
IssueStrings == UNION {[1..n -> Chars] : n \in 0..MaxIssueLen}

\* str.strip(): drop leading and trailing whitespace
IsSpace(c) == c = " "
RECURSIVE LStrip(_)
LStrip(s) ==
  IF s # <<>> /\ IsSpace(Head(s)) THEN LStrip(Tail(s)) ELSE s
RECURSIVE RStrip(_)
RStrip(s) ==
  IF s # <<>> /\ IsSpace(s[Len(s)]) THEN RStrip(SubSeq(s, 1, Len(s) - 1)) ELSE s
Strip(s) == RStrip(LStrip(s))

(***************************************************************************)
(* Binary64 arithmetic.                                                    *)
(*                                                                         *)
(* Let V = 1 / (10 * 2^55).  The double nearest 0.30 is 3/10 - 4V and the  *)
(* double nearest 0.20 is 2/10 + 4V.  Every double that _run computes is   *)
(* n/10 + d*V for an integer n (tenths) and a small integer d, and is      *)
(* carried as the record [n |-> n, d |-> d].  In the binade [2^k, 2^(k+1)) *)
(* doubles are the multiples of 2^(k-52) = 10 * 2^(k+3) * V, so rounding   *)
(* to nearest, ties to even, needs only n modulo 20 and d.                 *)
(***************************************************************************)
RECURSIVE Pow2(_)
Pow2(k) == IF k = 0 THEN 1 ELSE 2 * Pow2(k - 1)

Max(S) == CHOOSE x \in S : \A y \in S : y <= x
Min(S) == CHOOSE x \in S : \A y \in S : x <= y

\* the binade k of n/10 + d*V: the largest k with 2^k <= value, for values
\* in [0.2, 128); 4n is compared with 40 * 2^k
Binade(n, d) ==
  LET T(c) == 10 * Pow2(c + 2)
      S == {c \in -2..6 : 4 * n > T(c) \/ (4 * n = T(c) /\ d >= 0)}
  IN IF S = {} THEN -3 ELSE Max(S)

\* 2^m modulo 20, for m >= 2
Pow2Mod20(m) ==
  CASE m % 4 = 2 -> 4
    [] m % 4 = 3 -> 8
    [] m % 4 = 0 -> 16
    [] m % 4 = 1 -> 12

\* round the real n/10 + d*V to the nearest double, ties to even
RoundToDouble(n, d) ==
  IF n = 0 /\ d = 0 THEN [n |-> 0, d |-> 0]
  ELSE
    LET k == Binade(n, d)
        g == k + 3
        G == 10 * Pow2(g)
        r20 == ((n % 20) * Pow2Mod20(52 - k)) % 20
        rho == r20 % 10
        par == (r20 - rho) \div 10
        r == Pow2(g) * rho + d
        q == par + (r \div G)
        rem == r % G
    IN IF 2 * rem < G \/ (2 * rem = G /\ q % 2 = 0)
         THEN [n |-> n, d |-> d - rem]
         ELSE [n |-> n, d |-> d + G - rem]

\* WEIGHTS: the doubles 0.30 = 3/10 - 4V and 0.20 = 2/10 + 4V
WEIGHTS ==
  [privacy |-> [n |-> 3, d |-> -4],
   bias |-> [n |-> 2, d |-> 4],
   transparency |-> [n |-> 2, d |-> 4],
   ethics |-> [n |-> 3, d |-> -4]]

\* int * float
FMul(s, w) == RoundToDouble(s * w.n, s * w.d)
\* float + float
FAdd(x, y) == RoundToDouble(x.n + y.n, x.d + y.d)

\* sum(scores[name] * WEIGHTS[name] for name in scores): starts from the
\* int 0 and adds the products in dict order
RECURSIVE FSum(_, _)
FSum(scores, i) ==
  IF i = 0 THEN [n |-> 0, d |-> 0]
  ELSE FAdd(FSum(scores, i - 1), FMul(scores[Names[i]], WEIGHTS[Names[i]]))

\* round(x) of a float: nearest integer of the double's exact value, ties to
\* even (a tie needs the double to be exactly i + 0.5, d = 0)
PyRound(x) ==
  LET fl == x.n \div 10
      r == x.n % 10
  IN CASE r < 5 -> fl
       [] r > 5 -> fl + 1
       [] r = 5 /\ x.d > 0 -> fl + 1
       [] r = 5 /\ x.d < 0 -> fl
       [] OTHER -> IF fl % 2 = 0 THEN fl ELSE fl + 1

(***************************************************************************)
(* TrustCalculator.                                                        *)
(***************************************************************************)
\* "if critical_issues and len(critical_issues.strip()) > 0"
CriticalOverride(critical_issues) ==
  critical_issues # <<>> /\ Len(Strip(critical_issues)) > 0

\* critical_failures: one entry "NAME: score" per score below the critical
\* threshold, in dict order
RECURSIVE CriticalFailuresUpTo(_, _)
CriticalFailuresUpTo(scores, i) ==
  IF i = 0 THEN <<>>
  ELSE LET name == Names[i]
           rest == CriticalFailuresUpTo(scores, i - 1)
       IN IF scores[name] < CRITICAL_THRESHOLD
            THEN Append(rest, <<Upper(name), scores[name]>>)
            ELSE rest
CriticalFailures(scores) == CriticalFailuresUpTo(scores, Len(Names))

FirstFailingScore(scores) == CriticalFailures(scores)[1][2]
\* min(scores.values())
MinScoreOfHighest(scores) == Max({scores[name] : name \in Dims})
MinScoreOf(scores) == Min({scores[name] : name \in Dims})

\* "if diff > 40"
SignificantFromForty(diff) == diff >= CONFLICT_DIFF
Significant(diff) == diff > CONFLICT_DIFF

\* "winner = name1 if scores[name1] < scores[name2] else name2"
WinnerHigher(scores, name1, name2) ==
  IF scores[name1] > scores[name2] THEN name1 ELSE name2
Winner(scores, name1, name2) ==
  IF scores[name1] < scores[name2] THEN name1 ELSE name2

\* the resolution text of one conflict: the f-string "Deferring to stricter
\* {winner} score for safety" keeps its parameter as the field winner
ResolutionPrecedence(scores, name1, name2) ==
  IF "ethics" \in {name1, name2} \/ "privacy" \in {name1, name2}
    THEN [text |-> "Deferring to stricter score for safety",
          winner |-> IF name1 \in {"ethics", "privacy"} THEN name1 ELSE name2]
    ELSE [text |-> "Averaging scores with slight penalty for disagreement",
          winner |-> "none"]
Resolution(scores, name1, name2) ==
  IF "ethics" \in {name1, name2} \/ "privacy" \in {name1, name2}
    THEN [text |-> "Deferring to stricter score for safety",
          winner |-> Winner(scores, name1, name2)]
    ELSE [text |-> "Averaging scores with slight penalty for disagreement",
          winner |-> "none"]

\* the body of the two loops for the pair (Names[i], Names[j]), i < j
ConflictOf(scores, i, j) ==
  LET name1 == Names[i]
      name2 == Names[j]
      diff == Abs(scores[name1] - scores[name2])
  IN IF Significant(diff)
       THEN << [agents |-> <<Upper(name1), Upper(name2)>>,
                scores |-> <<scores[name1], scores[name2]>>,
                resolution |-> Resolution(scores, name1, name2)] >>
       ELSE <<>>

\* the inner loop "for name2, score2 in score_list[i+1:]", from position j on
RECURSIVE InnerLoop(_, _, _)
InnerLoop(scores, i, j) ==
  IF j > Len(Names) THEN <<>>
  ELSE ConflictOf(scores, i, j) \o InnerLoop(scores, i, j + 1)

\* the outer loop "for i, (name1, score1) in enumerate(score_list)"
RECURSIVE OuterLoop(_, _)
OuterLoop(scores, i) ==
  IF i > Len(Names) THEN <<>>
  ELSE InnerLoop(scores, i, i + 1) \o OuterLoop(scores, i + 1)

\* _detect_conflicts
DetectConflicts(scores) == OuterLoop(scores, 1)

\* "overall_score = int(round(sum(...)))"
WeightedOverallPenalised(scores) ==
  PyRound(FSum(scores, Len(Names))) - Len(DetectConflicts(scores))
WeightedOverallUnweighted(scores) ==
  scores["privacy"] + scores["bias"] + scores["transparency"] + scores["ethics"]
WeightedOverall(scores) == PyRound(FSum(scores, Len(Names)))

\* the decision and its reason, from the overall score
DecideInclusive(overall_score) ==
  IF overall_score <= BLOCK_THRESHOLD
    THEN [decision |-> "block", reason |-> "Overall trust score too low"]
  ELSE IF overall_score <= WARN_THRESHOLD
    THEN [decision |-> "warn", reason |-> "Trust score indicates caution needed"]
  ELSE [decision |-> "proceed", reason |-> "All checks passed"]
Decide(overall_score) ==
  IF overall_score < BLOCK_THRESHOLD
    THEN [decision |-> "block", reason |-> "Overall trust score too low"]
  ELSE IF overall_score < WARN_THRESHOLD
    THEN [decision |-> "warn", reason |-> "Trust score indicates caution needed"]
  ELSE [decision |-> "proceed", reason |-> "All checks passed"]

\* _format_output: the text shows the scores, the overall score, the
\* decision, the reason and the conflicts; the record keeps these parts
FormatOutput(overall_score, scores, decision, reason, detail, conflicts) ==
  [overall_score |-> overall_score,
   scores |-> scores,
   decision |-> decision,
   reason |-> reason,
   detail |-> detail,
   conflicts |-> conflicts]

\* first return of _run: a critical issue was passed in
IssueBlockWithConflicts(scores, critical_issues) ==
  FormatOutput(0, scores, "block", "Critical issue detected",
               critical_issues, DetectConflicts(scores))
IssueBlock(scores, critical_issues) ==
  FormatOutput(0, scores, "block", "Critical issue detected",
               critical_issues, <<>>)

\* second return of _run: some score is critically low
FailureBlockFirst(scores) ==
  FormatOutput(FirstFailingScore(scores), scores, "block", "Critical failure in",
               CriticalFailures(scores), <<>>)
FailureBlock(scores) ==
  FormatOutput(MinScoreOf(scores), scores, "block", "Critical failure in",
               CriticalFailures(scores), <<>>)

\* third return of _run: weighted average, conflicts, thresholds
WeightedResult(scores) ==
  LET overall_score == WeightedOverall(scores)
      conflicts == DetectConflicts(scores)
      d == Decide(overall_score)
  IN FormatOutput(overall_score, scores, d.decision, d.reason, <<>>, conflicts)

\* TrustCalculator._run
TrustRunFailuresFirst(scores, critical_issues) ==
  IF CriticalFailures(scores) # <<>> THEN FailureBlock(scores)
  ELSE IF CriticalOverride(critical_issues) THEN IssueBlock(scores, critical_issues)
  ELSE WeightedResult(scores)
TrustRun(scores, critical_issues) ==
  IF CriticalOverride(critical_issues) THEN IssueBlock(scores, critical_issues)
  ELSE IF CriticalFailures(scores) # <<>> THEN FailureBlock(scores)
  ELSE WeightedResult(scores)

(***************************************************************************)
(* AuditLogger (src/src/project/audit_logger.py): values and files.        *)
(*                                                                         *)
(* A string that the logger takes apart (a session id, a file name) is a   *)
(* sequence of pieces: the piece "session_" is the text that file names    *)
(* are built with and that get_all_sessions removes, ".jsonl" is the       *)
(* suffix, and "a" is any text without either of them.                     *)
(***************************************************************************)
\* Optional[str]: the value None
None == <<"<None>">>

\* the session ids that are tried: the empty string, "a" and "session_a"
SessionIds == {<<>>, <<"a">>, <<"session_", "a">>}
\* a session_id argument: a string or None (the default)
SessionArgs == SessionIds \cup {None}

\* self.log_dir / f"session_{session_id}.jsonl"
SessionFileShared(session_id) == <<"session_", ".jsonl">>
SessionFile(session_id) == <<"session_">> \o session_id \o <<".jsonl">>

\* Path.stem: the file name without its last suffix
Stem(filepath) == SubSeq(filepath, 1, Len(filepath) - 1)

\* str.replace(old, ""): every occurrence of the piece old is removed
RECURSIVE Replace(_, _)
Replace(str, old) ==
  IF str = <<>> THEN <<>>
  ELSE IF Head(str) = old THEN Replace(Tail(str), old)
  ELSE <<Head(str)>> \o Replace(Tail(str), old)

\* order of str comparison: "a" sorts before "session_" ('a' < 's'), and a
\* proper prefix sorts first
PieceRank(piece) == IF piece = "a" THEN 1 ELSE 2
RECURSIVE StrLessEq(_, _)
StrLessEq(x, y) ==
  IF x = <<>> THEN TRUE
  ELSE IF y = <<>> THEN FALSE
  ELSE IF Head(x) # Head(y) THEN PieceRank(Head(x)) < PieceRank(Head(y))
  ELSE StrLessEq(Tail(x), Tail(y))

\* sorted(list): insertion of each element at its place
RECURSIVE InsertSorted(_, _)
InsertSorted(x, list) ==
  IF list = <<>> THEN <<x>>
  ELSE IF StrLessEq(x, Head(list)) THEN <<x>> \o list
  ELSE <<Head(list)>> \o InsertSorted(x, Tail(list))
RECURSIVE Sorted(_)
Sorted(list) ==
  IF list = <<>> THEN <<>> ELSE InsertSorted(Head(list), Sorted(Tail(list)))

\* some enumeration of a finite set as a list (the order glob yields files in)
RECURSIVE SomeOrder(_)
SomeOrder(S) ==
  IF S = {} THEN <<>>
  ELSE LET x == CHOOSE y \in S : TRUE IN <<x>> \o SomeOrder(S \ {x})

\* a payload of type Dict[str, Any]: one that json.dumps can encode, and one
\* that holds a datetime, which json.dumps rejects with TypeError
GoodDict == [score |-> 90]
DatetimeDict == [timestamp |-> "datetime"]
Serializable(value) == value # DatetimeDict

\* the keys of the five event dicts, in the order the dict literals give them
EventKeys ==
  <<"event", "timestamp", "session_id", "agent", "report", "certificate",
    "decision", "reason", "user_input", "final_response",
    "processing_time_ms">>

\* json.dumps(data) + '\n': the line has the members of the dict in
\* insertion order, as pairs <<key, value>>
RECURSIVE DumpKeys(_, _)
DumpKeys(data, i) ==
  IF i > Len(EventKeys) THEN <<>>
  ELSE IF EventKeys[i] \in DOMAIN data
    THEN <<<<EventKeys[i], data[EventKeys[i]]>>>> \o DumpKeys(data, i + 1)
  ELSE DumpKeys(data, i + 1)
JsonDumps(data) == DumpKeys(data, 1)
\* the str and int members always encode; the Dict[str, Any] members may not
JsonSerializable(data) ==
  \A k \in DOMAIN data \cap {"report", "certificate"} : Serializable(data[k])

\* json.loads(line): the dict of the members of the line
JsonLoads(line) ==
  [k \in {line[i][1] : i \in 1..Len(line)} |->
     line[CHOOSE i \in 1..Len(line) : line[i][1] = k][2]]

\* the log directory: a function from the names of the files that exist to
\* their lines
EmptyDir == [filepath \in {} |-> <<>>]

\* open(filepath, 'a'): the file is created empty if it does not exist
OpenAppend(dir, filepath) ==
  [f \in DOMAIN dir \cup {filepath} |-> IF f \in DOMAIN dir THEN dir[f] ELSE <<>>]

\* open(filepath, 'w') in place of 'a': the file is emptied
OpenTruncate(dir, filepath) ==
  [f \in DOMAIN dir \cup {filepath} |-> IF f = filepath THEN <<>> ELSE dir[f]]

\* _append_log: the directory afterwards.  The file is opened before the
\* data is encoded, so when json.dumps raises the file exists but has
\* gained no line
AppendLogTruncating(dir, filepath, data) ==
  LET opened == OpenTruncate(dir, filepath)
  IN IF JsonSerializable(data)
       THEN [opened EXCEPT ![filepath] = Append(@, JsonDumps(data))]
       ELSE opened
AppendLog(dir, filepath, data) ==
  LET opened == OpenAppend(dir, filepath)
  IN IF JsonSerializable(data)
       THEN [opened EXCEPT ![filepath] = Append(@, JsonDumps(data))]
       ELSE opened

\* "if line.strip()": the lines of a file that are not blank
NonBlank(lines) == SelectSeq(lines, LAMBDA line : line # <<>>)

RECURSIVE MapLoads(_)
MapLoads(lines) ==
  IF lines = <<>> THEN <<>>
  ELSE <<JsonLoads(Head(lines))>> \o MapLoads(Tail(lines))

\* get_session_history: what it returns
SessionHistorySkipFirst(dir, session_id) ==
  IF SessionFile(session_id) \notin DOMAIN dir THEN <<>>
  ELSE LET lines == NonBlank(dir[SessionFile(session_id)])
       IN IF lines = <<>> THEN <<>> ELSE MapLoads(Tail(lines))
SessionHistory(dir, session_id) ==
  IF SessionFile(session_id) \notin DOMAIN dir THEN <<>>
  ELSE MapLoads(NonBlank(dir[SessionFile(session_id)]))

\* get_all_sessions: what it returns
RECURSIVE StemIds(_)
StemIds(filelist) ==
  IF filelist = <<>> THEN <<>>
  ELSE <<Replace(Stem(Head(filelist)), "session_")>> \o StemIds(Tail(filelist))
AllSessions(dir) == Sorted(StemIds(SomeOrder(DOMAIN dir)))

(***************************************************************************)
(* State.                                                                  *)
(***************************************************************************)
VARIABLES
  scores,           \* the scores dict passed to _run
  critical_issues,  \* the critical_issues argument
  output,           \* what _run returned
  pc                \* "call": _run not yet run; "done": it has returned

VARIABLES
  files,            \* the files of log_dir and their lines
  current_session,  \* AuditLogger.current_session
  clock,            \* the time datetime.now() gives to the next event
  appended,         \* per session id, the event dicts passed to _append_log
  last              \* the last logger call: its name, arguments and outcome

VARIABLES
  run_pc,           \* where run_veritas_audit stands
  run_args,         \* its user_input, proposed_response and session_id
  run_tasks,        \* the tasks of the crew that have completed, in order
  run_result        \* the dict it returned

VARIABLES
  writers           \* per concurrent caller of _append_log: where it stands

trustVars == <<scores, critical_issues, output, pc>>
auditVars == <<files, current_session, clock, appended, last>>
runVars == <<run_pc, run_args, run_tasks, run_result>>
vars == <<scores, critical_issues, output, pc,
          files, current_session, clock, appended, last,
          run_pc, run_args, run_tasks, run_result, writers>>

\* AuditLogger.__init__ on a directory without log files
NoCall == [op |-> "none"]
AuditInit ==
  /\ files = EmptyDir
  /\ current_session = None
  /\ clock = 0
  /\ appended = [id \in SessionIds |-> <<>>]
  /\ last = NoCall

\* no call of run_veritas_audit is under way
RunIdle ==
  /\ run_pc = "idle"
  /\ run_args = <<>>
  /\ run_tasks = <<>>
  /\ run_result = <<>>

\* no concurrent callers of _append_log
WritersIdle == writers = <<>>

ScoreDicts == [Dims -> Scores]

\* no call of the trust calculator is under way
TrustIdle ==
  /\ scores = [name \in Dims |-> MinScore]
  /\ critical_issues = <<>>
  /\ output = <<>>
  /\ pc = "idle"

TrustInit ==
  /\ scores \in ScoreDicts
  /\ critical_issues \in IssueStrings
  /\ output = <<>>
  /\ pc = "call"
  /\ AuditInit
  /\ RunIdle
  /\ WritersIdle

\* TrustCalculator._run(privacy_score, bias_score, transparency_score,
\* ethics_score, critical_issues)
Run ==
  /\ pc = "call"
  /\ output' = TrustRun(scores, critical_issues)
  /\ pc' = "done"
  /\ UNCHANGED <<scores, critical_issues>>
  /\ UNCHANGED <<auditVars, runVars, writers>>

TrustNext == Run

SpecTrust == TrustInit /\ [][TrustNext]_vars

(***************************************************************************)
(* Properties of the trust calculator.                                     *)
(***************************************************************************)
Done == pc = "done"
\* no critical issue was passed: the string is empty or only whitespace
NoIssue == Strip(critical_issues) = <<>>
AllAtLeastCritical == \A name \in Dims : scores[name] >= CRITICAL_THRESHOLD
\* neither override fires: _run reaches the weighted average
Weighted == NoIssue /\ AllAtLeastCritical
\* ten times the exact weighted sum 0.30 p + 0.20 b + 0.20 t + 0.30 e
ExactTenths ==
  3 * scores["privacy"] + 2 * scores["bias"]
    + 2 * scores["transparency"] + 3 * scores["ethics"]
ScoresAre(p, b, t, e) ==
  /\ scores["privacy"] = p
  /\ scores["bias"] = b
  /\ scores["transparency"] = t
  /\ scores["ethics"] = e
\* the positions in the reported conflict list of conflicts between a and b
ConflictsOf(a, b) ==
  {i \in 1..Len(output.conflicts) :
     {output.conflicts[i].agents[1], output.conflicts[i].agents[2]}
       = {Upper(a), Upper(b)}}
DimOf(agent) == CHOOSE name \in Dims : Upper(name) = agent

\* C1: with every score >= 20 and no critical issue, the overall score is the
\* integer nearest to the exact weighted sum 0.30 p + 0.20 b + 0.20 t +
\* 0.30 e (either neighbour on an exact tie), whether or not conflicts are
\* reported.
C1_WeightedOverall ==
  (Done /\ Weighted) => Abs(10 * output.overall_score - ExactTenths) <= 5
C1_Witness ==
  /\ Done /\ Weighted
  /\ output.conflicts # <<>>
  /\ ExactTenths % 10 \notin {0, 5}
  /\ Abs(10 * output.overall_score - ExactTenths) < 5

\* C2: with no critical issue and at least one score < 20, the decision is
\* block and the overall score is the minimum of the four scores.
C2_SingleScoreFailure ==
  (Done /\ NoIssue /\ ~AllAtLeastCritical) =>
    /\ output.decision = "block"
    /\ output.overall_score = MinScoreOf(scores)
    /\ \A name \in Dims : output.overall_score <= scores[name]
C2_Witness ==
  /\ Done /\ NoIssue
  /\ scores["privacy"] = MaxScore /\ scores["bias"] = MaxScore
  /\ scores["transparency"] = MaxScore
  /\ scores["ethics"] = CRITICAL_THRESHOLD - 1
  /\ output.decision = "block"
  /\ output.overall_score = CRITICAL_THRESHOLD - 1

\* C3 as stated: every non-empty critical_issues string gives overall 0 and
\* block.
C3_Original ==
  (Done /\ critical_issues # <<>>) =>
    (output.overall_score = 0 /\ output.decision = "block")
\* C3 as amended: every critical_issues string that has a non-whitespace
\* character gives overall 0 and block, also when some score is < 20.
C3_CriticalIssue ==
  (Done /\ Strip(critical_issues) # <<>>) =>
    (output.overall_score = 0 /\ output.decision = "block")
C3_Witness ==
  /\ Done
  /\ critical_issues = <<" ", "x">>
  /\ ~AllAtLeastCritical
  /\ MinScoreOf(scores) > 0
  /\ output.overall_score = 0
  /\ output.decision = "block"

\* C4: when no override fires, block iff overall < 30, warn iff
\* 30 <= overall < 60, proceed iff overall >= 60.
C4_Thresholds ==
  (Done /\ Weighted) =>
    /\ output.decision = "block" <=> output.overall_score < 30
    /\ output.decision = "warn" <=>
         (30 <= output.overall_score /\ output.overall_score < 60)
    /\ output.decision = "proceed" <=> output.overall_score >= 60
C4_Witness ==
  /\ Done /\ Weighted
  /\ output.overall_score = 30
  /\ output.decision = "warn"

\* C5: a privacy score of exactly 20, or an ethics score of exactly 20 with
\* overall score 50, gives the decision block.
C5_TwentyIsCritical ==
  (Done /\ (scores["privacy"] = 20
              \/ (scores["ethics"] = 20 /\ output.overall_score = 50))) =>
    output.decision = "block"

\* C6: when no override fires and the exact weighted sum ends in .5, the
\* overall score is the next integer above.
C6_TiesHalfUp ==
  (Done /\ Weighted /\ ExactTenths % 10 = 5) =>
    output.overall_score = (ExactTenths \div 10) + 1

\* C7: when no override fires, each pair of dimensions has a conflict in the
\* list iff its two scores differ by more than 40, whichever of the two is
\* named first, and it has at most one.
C7_ConflictIffOver40 ==
  (Done /\ Weighted) =>
    \A a \in Dims : \A b \in Dims \ {a} :
      /\ ConflictsOf(a, b) # {} <=> Abs(scores[a] - scores[b]) > 40
      /\ Cardinality(ConflictsOf(a, b)) <= 1
C7_Witness ==
  /\ Done /\ Weighted
  /\ ScoresAre(20, 60, 61, 100)
  /\ ConflictsOf("privacy", "bias") = {}
  /\ ConflictsOf("privacy", "transparency") # {}
  /\ ConflictsOf("ethics", "privacy") # {}
  /\ Len(output.conflicts) = 2

\* C8: a conflict of a pair that has ethics or privacy in it defers to the
\* dimension of the pair with the lower score; the conflict of bias and
\* transparency carries the averaging note.
C8_Resolution ==
  Done =>
    \A i \in 1..Len(output.conflicts) :
      LET c == output.conflicts[i]
          name1 == DimOf(c.agents[1])
          name2 == DimOf(c.agents[2])
      IN IF {"ethics", "privacy"} \cap {name1, name2} # {}
           THEN /\ c.resolution.text = "Deferring to stricter score for safety"
                /\ c.resolution.winner \in {name1, name2}
                /\ \A other \in {name1, name2} \ {c.resolution.winner} :
                     scores[c.resolution.winner] < scores[other]
           ELSE /\ c.resolution.text
                     = "Averaging scores with slight penalty for disagreement"
                /\ c.resolution.winner = "none"
C8_Witness ==
  /\ Done /\ Weighted
  /\ \E i \in 1..Len(output.conflicts) :
       /\ output.conflicts[i].agents = <<"PRIVACY", "BIAS">>
       /\ output.conflicts[i].resolution.winner = "bias"
  /\ \E i \in 1..Len(output.conflicts) :
       /\ output.conflicts[i].agents = <<"BIAS", "TRANSPARENCY">>
       /\ output.conflicts[i].resolution.winner = "none"

\* C9: privacy 30, bias 85, transparency 80, ethics 90 with no critical
\* issue gives overall 69, proceed, and a privacy-ethics conflict that defers
\* to privacy.
C9_Scenario ==
  (Done /\ NoIssue /\ ScoresAre(30, 85, 80, 90)) =>
    /\ output.overall_score = 69
    /\ output.decision = "proceed"
    /\ \E i \in 1..Len(output.conflicts) :
         /\ output.conflicts[i].agents = <<"PRIVACY", "ETHICS">>
         /\ output.conflicts[i].scores = <<30, 90>>
         /\ output.conflicts[i].resolution
              = [text |-> "Deferring to stricter score for safety",
                 winner |-> "privacy"]
C9_Witness ==
  /\ Done /\ critical_issues = <<>> /\ ScoresAre(30, 85, 80, 90)
  /\ output.overall_score = 69
  /\ Len(output.conflicts) = 3

\* C10: privacy 60, bias 90, transparency 90, ethics 85 yields at least one
\* conflict.
C10_ScenarioHasConflict ==
  (Done /\ NoIssue /\ ScoresAre(60, 90, 90, 85)) => Len(output.conflicts) > 0

\* C11: for all scores in 0..100, with or without critical issues, the
\* overall score is an integer in 0..100, the range of
\* TrustCertificate.overall_score.
C11_OverallInRange ==
  Done => output.overall_score \in MinScore..MaxScore
C11_Witness ==
  /\ Done /\ Weighted
  /\ ScoresAre(MaxScore, MaxScore, MaxScore, MaxScore)
  /\ output.overall_score = MaxScore

(***************************************************************************)
(* AuditLogger: the operations.                                            *)
(***************************************************************************)
\* arguments that are tried
AgentNames == {"privacy"}
ReportDicts == {GoodDict, DatetimeDict}
CertificateDicts == {GoodDict}
Decisions == {"proceed", "block", "escalate"}
ProcessingTimes == {-5, 0, 5}

\* "sid = session_id or self.current_session"
Resolve(session_id, current) ==
  IF session_id # None /\ session_id # <<>> THEN session_id ELSE current
\* "if not sid"
NoSid(sid) == sid = None \/ sid = <<>>

\* the dict literals of the five events
StartData(sid, now) ==
  [event |-> "session_start", timestamp |-> now, session_id |-> sid]
ReportData(sid, now, agent_name, report) ==
  [event |-> "agent_report", timestamp |-> now, session_id |-> sid,
   agent |-> agent_name, report |-> report]
CertificateData(sid, now, certificate) ==
  [event |-> "trust_certificate", timestamp |-> now, session_id |-> sid,
   certificate |-> certificate]
DecisionData(sid, now, decision, reason, user_input, final_response) ==
  [event |-> "decision", timestamp |-> now, session_id |-> sid,
   decision |-> decision, reason |-> reason, user_input |-> user_input,
   final_response |-> final_response]
EndData(sid, now, processing_time_ms) ==
  [event |-> "session_end", timestamp |-> now, session_id |-> sid,
   processing_time_ms |-> processing_time_ms]

\* the call self._append_log(session_file, data) for session sid, made by
\* the operation op: the file gains the line, or json.dumps raises TypeError
\* and the exception leaves the operation
Logged(op, session_id, sid, data) ==
  /\ files' = AppendLog(files, SessionFile(sid), data)
  /\ clock' = clock + 1
  /\ IF JsonSerializable(data)
       THEN /\ appended' = [appended EXCEPT ![sid] = Append(@, data)]
            /\ last' = [op |-> op, session_id |-> session_id, sid |-> sid,
                        data |-> data, raised |-> "none"]
       ELSE /\ appended' = appended
            /\ last' = [op |-> op, session_id |-> session_id, sid |-> sid,
                        data |-> data, raised |-> "TypeError"]

\* raise ValueError("No session ID available")
NoSessionId(op, session_id) ==
  /\ last' = [op |-> op, session_id |-> session_id, sid |-> None,
              raised |-> "ValueError"]
  /\ UNCHANGED <<files, current_session, clock, appended>>

\* start_session(session_id)
StartSession(session_id) ==
  /\ clock < MaxEvents
  /\ current_session' = session_id
  /\ Logged("start_session", session_id, session_id,
            StartData(session_id, clock))
  /\ UNCHANGED <<trustVars, runVars, writers>>

\* log_agent_report(agent_name, report, session_id)
LogAgentReport(agent_name, report, session_id) ==
  /\ clock < MaxEvents
  /\ LET sid == Resolve(session_id, current_session)
     IN IF NoSid(sid)
          THEN NoSessionId("log_agent_report", session_id)
          ELSE /\ Logged("log_agent_report", session_id, sid,
                         ReportData(sid, clock, agent_name, report))
               /\ UNCHANGED current_session
  /\ UNCHANGED <<trustVars, runVars, writers>>

\* log_trust_certificate(certificate, session_id)
LogTrustCertificate(certificate, session_id) ==
  /\ clock < MaxEvents
  /\ LET sid == Resolve(session_id, current_session)
     IN IF NoSid(sid)
          THEN NoSessionId("log_trust_certificate", session_id)
          ELSE /\ Logged("log_trust_certificate", session_id, sid,
                         CertificateData(sid, clock, certificate))
               /\ UNCHANGED current_session
  /\ UNCHANGED <<trustVars, runVars, writers>>

\* log_decision(decision, reason, user_input, final_response, session_id)
LogDecision(decision, reason, user_input, final_response, session_id) ==
  /\ clock < MaxEvents
  /\ LET sid == Resolve(session_id, current_session)
     IN IF NoSid(sid)
          THEN NoSessionId("log_decision", session_id)
          ELSE /\ Logged("log_decision", session_id, sid,
                         DecisionData(sid, clock, decision, reason, user_input,
                                      final_response))
               /\ UNCHANGED current_session
  /\ UNCHANGED <<trustVars, runVars, writers>>

\* end_session(processing_time_ms, session_id)
EndSessionKeepsCurrent(processing_time_ms, session_id) ==
  /\ clock < MaxEvents
  /\ LET sid == Resolve(session_id, current_session)
     IN IF NoSid(sid)
          THEN NoSessionId("end_session", session_id)
          ELSE /\ Logged("end_session", session_id, sid,
                         EndData(sid, clock, processing_time_ms))
               /\ UNCHANGED current_session
  /\ UNCHANGED <<trustVars, runVars, writers>>
EndSession(processing_time_ms, session_id) ==
  /\ clock < MaxEvents
  /\ LET sid == Resolve(session_id, current_session)
     IN IF NoSid(sid)
          THEN NoSessionId("end_session", session_id)
          ELSE /\ Logged("end_session", session_id, sid,
                         EndData(sid, clock, processing_time_ms))
               /\ current_session' = None
  /\ UNCHANGED <<trustVars, runVars, writers>>

\* get_session_history(session_id)
GetSessionHistoryCreating(session_id) ==
  /\ last' = [op |-> "get_session_history", session_id |-> session_id,
              raised |-> "none", ret |-> SessionHistory(files, session_id)]
  /\ files' = OpenAppend(files, SessionFile(session_id))
  /\ UNCHANGED <<current_session, clock, appended>>
  /\ UNCHANGED <<trustVars, runVars, writers>>
GetSessionHistory(session_id) ==
  /\ last' = [op |-> "get_session_history", session_id |-> session_id,
              raised |-> "none", ret |-> SessionHistory(files, session_id)]
  /\ UNCHANGED <<files, current_session, clock, appended>>
  /\ UNCHANGED <<trustVars, runVars, writers>>

\* get_all_sessions()
GetAllSessions ==
  /\ last' = [op |-> "get_all_sessions", raised |-> "none",
              ret |-> AllSessions(files)]
  /\ UNCHANGED <<files, current_session, clock, appended>>
  /\ UNCHANGED <<trustVars, runVars, writers>>

(***************************************************************************)
(* AuditLogger.get_statistics.                                             *)
(***************************************************************************)
\* the events that the loop "for session_id in self.get_all_sessions()"
\* visits, in order: the history of every listed id
RECURSIVE VisitedEvents(_, _)
VisitedEvents(dir, sessions) ==
  IF sessions = <<>> THEN <<>>
  ELSE SessionHistory(dir, Head(sessions)) \o VisitedEvents(dir, Tail(sessions))

\* dict.get(key, default)
Get(dict, key, default) == IF key \in DOMAIN dict THEN dict[key] ELSE default

\* stats["decisions"]: the three kinds with a counter
DecisionKinds == {"proceed", "warn", "block"}

\* the counter of one kind after the loop
DecisionCount(events, kind) ==
  Len(SelectSeq(events,
        LAMBDA event : /\ event["event"] = "decision"
                       /\ Get(event, "decision", "unknown") = kind))

\* processing_times: the values > 0 of the session_end events
PositiveTime(event) ==
  /\ event["event"] = "session_end"
  /\ Get(event, "processing_time_ms", 0) > 0
RECURSIVE TimesOf(_)
TimesOf(events) ==
  IF events = <<>> THEN <<>>
  ELSE IF PositiveTime(Head(events))
    THEN <<Head(events)["processing_time_ms"]>> \o TimesOf(Tail(events))
  ELSE TimesOf(Tail(events))

RECURSIVE SumSeq(_)
SumSeq(list) == IF list = <<>> THEN 0 ELSE Head(list) + SumSeq(Tail(list))

RECURSIVE Gcd(_, _)
Gcd(x, y) == IF y = 0 THEN x ELSE Gcd(y, x % y)

\* sum(processing_times) / len(processing_times): the quotient, as the
\* fraction num/den in lowest terms
TrueDiv(x, y) ==
  LET g == Gcd(x, y) IN [num |-> x \div g, den |-> y \div g]

\* get_statistics: what it returns
Statistics(dir) ==
  LET sessions == AllSessions(dir)
      events == VisitedEvents(dir, sessions)
      processing_times == TimesOf(events)
  IN [total_sessions |-> Len(sessions),
      decisions |-> [kind \in DecisionKinds |-> DecisionCount(events, kind)],
      avg_processing_time_ms |->
        IF processing_times # <<>>
          THEN TrueDiv(SumSeq(processing_times), Len(processing_times))
          ELSE [num |-> 0, den |-> 1],
      common_issues |-> <<>>]

\* get_statistics()
GetStatistics ==
  /\ last' = [op |-> "get_statistics", raised |-> "none",
              ret |-> Statistics(files)]
  /\ UNCHANGED <<files, current_session, clock, appended>>
  /\ UNCHANGED <<trustVars, runVars, writers>>

(***************************************************************************)
(* The logger used through any sequence of its operations.                 *)
(***************************************************************************)
InitAudit == TrustIdle /\ AuditInit /\ RunIdle /\ WritersIdle

AuditNext ==
  \/ \E session_id \in SessionIds : StartSession(session_id)
  \/ \E agent_name \in AgentNames, report \in ReportDicts,
        session_id \in SessionArgs :
       LogAgentReport(agent_name, report, session_id)
  \/ \E certificate \in CertificateDicts, session_id \in SessionArgs :
       LogTrustCertificate(certificate, session_id)
  \/ \E decision \in Decisions, session_id \in SessionArgs :
       LogDecision(decision, "reason", "input", "response", session_id)
  \/ \E processing_time_ms \in ProcessingTimes, session_id \in SessionArgs :
       EndSession(processing_time_ms, session_id)
  \/ \E session_id \in SessionIds : GetSessionHistory(session_id)
  \/ GetAllSessions
  \/ GetStatistics

SpecAudit == InitAudit /\ [][AuditNext]_vars

(***************************************************************************)
(* Properties of the audit logger.                                         *)
(***************************************************************************)
IsPrefix(x, y) == Len(x) <= Len(y) /\ SubSeq(y, 1, Len(x)) = x
\* the step just taken is a call of the operation op
Called(op) == last'.op = op /\ vars' # vars
\* the session ids that have had an event appended
IdsWithEvents == {id \in SessionIds : appended[id] # <<>>}
\* every event appended so far, over all sessions
AppendedEvents == VisitedEvents(files, SomeOrder(IdsWithEvents))
ListToSet(list) == {list[i] : i \in 1..Len(list)}

\* C12: the audit trail is append-only: in every step of every logger
\* operation, each session's history before the step is a prefix of its
\* history after it.
C12_AppendOnly ==
  [][\A id \in SessionIds :
       IsPrefix(SessionHistory(files, id), SessionHistory(files', id))]_vars
C12_Witness ==
  /\ last.op = "get_statistics"
  /\ Len(SessionHistory(files, <<"a">>)) >= 2
  /\ Len(SessionHistory(files, <<"session_", "a">>)) >= 1

\* C13: get_session_history of a session returns exactly the events that
\* were appended to it, each with the payload passed in, in append order.
C13_RoundTrip ==
  /\ \A id \in SessionIds : SessionHistory(files, id) = appended[id]
  /\ last.op = "get_session_history" => last.ret = appended[last.session_id]
C13_Witness ==
  /\ last.op = "get_session_history"
  /\ Len(last.ret) = 3
  /\ last.ret[1]["event"] = "session_start"
  /\ last.ret[2]["event"] = "agent_report"
  /\ last.ret[2]["report"] = GoodDict
  /\ last.ret[3]["event"] = "session_end"
  /\ last.ret[3]["processing_time_ms"] = 5

\* C14: get_session_history of an id without events returns the empty
\* sequence, raises nothing, and leaves get_all_sessions and every session's
\* history as they were.
C14_EmptyHistory ==
  [][(Called("get_session_history") /\ appended[last'.session_id] = <<>>) =>
       /\ last'.raised = "none"
       /\ last'.ret = <<>>
       /\ AllSessions(files') = AllSessions(files)
       /\ \A id \in SessionIds :
            SessionHistory(files', id) = SessionHistory(files, id)]_vars
C14_Witness ==
  /\ last.op = "get_session_history"
  /\ last.session_id = <<"a">>
  /\ last.ret = <<>>
  /\ appended[<<"a">>] = <<>>
  /\ appended[<<"session_", "a">>] # <<>>
  /\ SessionFile(<<"a">>) \notin DOMAIN files

\* C15: get_all_sessions returns exactly the set of session ids that have
\* had at least one event appended.
C15_AllSessionsExact ==
  /\ ListToSet(AllSessions(files)) = IdsWithEvents
  /\ last.op = "get_all_sessions" => ListToSet(last.ret) = IdsWithEvents

\* C16: get_statistics reports total_sessions as the number of sessions with
\* at least one event and, per decision kind, the number of decision events
\* of that kind over all sessions' histories.
C16_StatisticsCounts ==
  last.op = "get_statistics" =>
    /\ last.ret.total_sessions = Cardinality(IdsWithEvents)
    /\ \A kind \in DecisionKinds :
         last.ret.decisions[kind] = DecisionCount(AppendedEvents, kind)

\* C17: get_statistics reports avg_processing_time_ms as the mean of the
\* processing_time_ms values > 0 of all session_end events, and as 0 when
\* there is none.
C17_AverageTime ==
  last.op = "get_statistics" =>
    LET times == TimesOf(AppendedEvents)
        avg == last.ret.avg_processing_time_ms
    IN IF times = <<>> THEN avg.num = 0
       ELSE avg.num * Len(times) = SumSeq(times) * avg.den

\* C18: start_session while a session is active fails with an error, appends
\* no session_start event and leaves the active session unchanged.
C18_DuplicateSession ==
  [][(Called("start_session") /\ current_session \notin {None, <<>>}) =>
       /\ last'.raised # "none"
       /\ files' = files
       /\ current_session' = current_session]_vars

\* the step appends exactly the event data to session id
AppendsTo(id, data) ==
  SessionHistory(files', id) = Append(SessionHistory(files, id), data)

Tasks ==
  <<"privacy_scan", "bias_analysis", "transparency_check",
    "ethics_evaluation", "orchestrate_trust">>

\* arguments that are tried
UserInputs == {"What is the capital of France?", "My SSN is 123-45-6789"}
ProposedResponses == {<<"Paris.">>, None}
\* str(uuid.uuid4())[:8]: eight hexadecimal characters
GeneratedIds == {<<"a">>}
\* int(processing_time): the elapsed milliseconds
ElapsedTimes == {0, 7}

\* generate_base_response(user_input)
GenerateBaseResponse(user_input) ==
  <<"I understand you're asking about: ", user_input,
    ". Let me help you with that.">>

InitRun ==
  /\ TrustIdle
  /\ AuditInit
  /\ run_pc = "called"
  /\ run_args \in [user_input : UserInputs,
                   proposed_response : ProposedResponses,
                   session_id : SessionArgs]
  /\ run_tasks = <<>>
  /\ run_result = <<>>
  /\ WritersIdle

\* lines 58-75: the defaults of session_id and proposed_response
Prepare ==
  /\ run_pc = "called"
  /\ \E generated \in GeneratedIds :
       run_args' =
         [run_args EXCEPT
            !.session_id = IF @ = None THEN generated ELSE @,
            !.proposed_response =
               IF @ = None THEN GenerateBaseResponse(run_args.user_input) ELSE @]
  /\ run_pc' = "kickoff"
  /\ UNCHANGED <<run_tasks, run_result>>
  /\ UNCHANGED <<trustVars, auditVars, writers>>

\* Crew.kickoff, one task: the next task of the list completes
TaskCompletes ==
  /\ run_pc = "kickoff"
  /\ Len(run_tasks) < Len(Tasks)
  /\ run_tasks' = Append(run_tasks, Tasks[Len(run_tasks) + 1])
  /\ UNCHANGED <<run_pc, run_args, run_result>>
  /\ UNCHANGED <<trustVars, auditVars, writers>>

\* Crew.kickoff, one task: the next task of the list raises
TaskRaises ==
  /\ run_pc = "kickoff"
  /\ Len(run_tasks) < Len(Tasks)
  /\ run_pc' = "except"
  /\ UNCHANGED <<run_args, run_tasks, run_result>>
  /\ UNCHANGED <<trustVars, auditVars, writers>>

\* lines 89-104: kickoff has returned
ReturnSuccess ==
  /\ run_pc = "kickoff"
  /\ Len(run_tasks) = Len(Tasks)
  /\ \E processing_time \in ElapsedTimes :
       run_result' = [success |-> TRUE,
                      session_id |-> run_args.session_id,
                      user_input |-> run_args.user_input,
                      proposed_response |-> run_args.proposed_response,
                      audit_result |-> run_tasks[Len(run_tasks)],
                      processing_time_ms |-> processing_time]
  /\ run_pc' = "returned"
  /\ UNCHANGED <<run_args, run_tasks>>
  /\ UNCHANGED <<trustVars, auditVars, writers>>

\* lines 106-112: "except Exception as e"
ReturnFailure ==
  /\ run_pc = "except"
  /\ run_result' = [success |-> FALSE,
                    session_id |-> run_args.session_id,
                    error |-> Tasks[Len(run_tasks) + 1]]
  /\ run_pc' = "returned"
  /\ UNCHANGED <<run_args, run_tasks>>
  /\ UNCHANGED <<trustVars, auditVars, writers>>

RunNext ==
  \/ Prepare
  \/ TaskCompletes
  \/ TaskRaises
  \/ ReturnSuccess
  \/ ReturnFailure

SpecRun == InitRun /\ [][RunNext]_vars

(***************************************************************************)
(* Properties of the evaluation run.                                       *)
(***************************************************************************)
RECURSIVE EventKinds(_)
EventKinds(events) ==
  IF events = <<>> THEN <<>>
  ELSE <<IF events[1]["event"] = "agent_report"
           THEN <<"agent_report", events[1]["agent"]>>
           ELSE <<events[1]["event"]>> >> \o EventKinds(Tail(events))

\* C20: a completed run has run the stages in the order privacy, bias,
\* transparency, ethics, trust orchestration, and the audit history of its
\* session is session_start, the four agent reports in stage order,
\* trust_certificate, decision, session_end.
C20_RunAuditHistory ==
  (run_pc = "returned" /\ run_result.success) =>
    /\ run_tasks = Tasks
    /\ EventKinds(SessionHistory(files, run_result.session_id))
         = << <<"session_start">>,
              <<"agent_report", "privacy">>, <<"agent_report", "bias">>,
              <<"agent_report", "transparency">>, <<"agent_report", "ethics">>,
              <<"trust_certificate">>, <<"decision">>, <<"session_end">> >>

\* the tasks that run a detector stage
DetectorTasks ==
  {"privacy_scan", "bias_analysis", "transparency_check", "ethics_evaluation"}

\* C21: the failure of a detector stage never aborts the evaluation: the
\* remaining stages still run and the run ends with a complete result, never
\* with a failure outcome that names a detector stage.
C21_DetectorFailureNotFatal ==
  run_pc = "returned" =>
    \/ run_result.success /\ run_tasks = Tasks
    \/ ~run_result.success /\ run_result.error \notin DetectorTasks

(***************************************************************************)
(* Concurrent callers of _append_log on one session file.                  *)
(*                                                                         *)
(* _append_log takes no lock: it opens the file in mode 'a' and writes one *)
(* line.  Where the write lands is left to the platform: either the line   *)
(* is added at the end of the file in one step (an append-mode descriptor  *)
(* that the system honours), or the position is set to the end of the file *)
(* first and the line is written at that position afterwards.             *)
(***************************************************************************)
\* the AuditLogger instances that log to the same session
Writers == {1, 2}
\* the session they log to, always passed explicitly
SharedSession == <<"a">>

\* no call under way, nothing written yet
WriterIdle == [pc |-> "idle", pos |-> 0, data |-> [event |-> "none"], done |-> <<>>]

InitWriters ==
  /\ TrustIdle
  /\ AuditInit
  /\ RunIdle
  /\ writers = [w \in Writers |-> WriterIdle]

\* log_agent_report(agent_name, report, session_id) up to the open() of
\* _append_log: the event dict is built and the file is opened
WriterOpens(w) ==
  /\ writers[w].pc = "idle"
  /\ Len(writers[w].done) < MaxWrites
  /\ \E agent_name \in AgentNames :
       writers' = [writers EXCEPT
                     ![w].pc = "opened",
                     ![w].data = ReportData(SharedSession, clock, agent_name,
                                            GoodDict)]
  /\ files' = OpenAppend(files, SessionFile(SharedSession))
  /\ clock' = clock + 1
  /\ UNCHANGED <<current_session, appended, last>>
  /\ UNCHANGED <<trustVars, runVars>>

\* f.write(...) and the close of the file, where the system adds the line at
\* the end of the file in one step
WriterAppends(w) ==
  /\ writers[w].pc = "opened"
  /\ files' = [files EXCEPT ![SessionFile(SharedSession)] =
                 Append(@, JsonDumps(writers[w].data))]
  /\ writers' = [writers EXCEPT ![w].pc = "idle",
                                ![w].done = Append(@, writers[w].data)]
  /\ UNCHANGED <<current_session, clock, appended, last>>
  /\ UNCHANGED <<trustVars, runVars>>

\* the first half of a write that positions and then writes: the position
\* becomes the end of the file as it is now
WriterSeeksEnd(w) ==
  /\ writers[w].pc = "opened"
  /\ writers' = [writers EXCEPT
                   ![w].pc = "positioned",
                   ![w].pos = Len(files[SessionFile(SharedSession)])]
  /\ UNCHANGED auditVars
  /\ UNCHANGED <<trustVars, runVars>>

\* a line written at position pos of a file of lines of equal length: it
\* takes the place of the line that lies there, if any
WriteAt(lines, pos, line) ==
  SubSeq(lines, 1, pos) \o <<line>> \o SubSeq(lines, pos + 2, Len(lines))

\* the second half: the line is written at the position found before
WriterWritesAt(w) ==
  /\ writers[w].pc = "positioned"
  /\ files' = [files EXCEPT ![SessionFile(SharedSession)] =
                 WriteAt(@, writers[w].pos, JsonDumps(writers[w].data))]
  /\ writers' = [writers EXCEPT ![w].pc = "idle",
                                ![w].done = Append(@, writers[w].data)]
  /\ UNCHANGED <<current_session, clock, appended, last>>
  /\ UNCHANGED <<trustVars, runVars>>

WritersNext ==
  \E w \in Writers :
    \/ WriterOpens(w)
    \/ WriterAppends(w)
    \/ WriterSeeksEnd(w)
    \/ WriterWritesAt(w)

SpecWriters == InitWriters /\ [][WritersNext]_vars

\* the places of an event in a list of events
PlacesOf(event, events) == {i \in 1..Len(events) : events[i] = event}

\* C22: when two logger instances append concurrently to the same session,
\* every event whose append has returned appears exactly once in the
\* session's history, and the events of each writer keep their order.
C22_ConcurrentAppends ==
  LET history == SessionHistory(files, SharedSession)
  IN \A w \in Writers :
       /\ \A i \in 1..Len(writers[w].done) :
            Cardinality(PlacesOf(writers[w].done[i], history)) = 1
       /\ \A i, j \in 1..Len(writers[w].done) :
            i < j => \A p \in PlacesOf(writers[w].done[i], history),
                        q \in PlacesOf(writers[w].done[j], history) : p < q

(***************************************************************************)
(* Further properties of the audit logger.                                 *)
(***************************************************************************)
\* the operations that append an event
WriteOps ==
  {"start_session", "log_agent_report", "log_trust_certificate",
   "log_decision", "end_session"}
\* those of them that resolve the session from an optional session_id
LogOps == WriteOps \ {"start_session"}

\* C23: a logging operation that writes to one session leaves the history
\* of every other session unchanged.
C23_OtherSessionsUntouched ==
  [][(last'.op \in WriteOps /\ vars' # vars) =>
       \A id \in SessionIds :
         id # last'.sid => SessionHistory(files', id) = SessionHistory(files, id)]_vars
C23_Witness ==
  /\ last.op = "log_agent_report"
  /\ last.raised = "none"
  /\ last.sid = <<"a">>
  /\ Len(SessionHistory(files, <<"a">>)) = 2
  /\ Len(SessionHistory(files, <<"session_", "a">>)) = 1

\* C24: log_agent_report, log_trust_certificate, log_decision and end_session
\* write to the session id passed explicitly when one is given and otherwise
\* to the current session; when there is neither they raise and append
\* nothing.
C24_ResolvesSession ==
  [][(last'.op \in LogOps /\ vars' # vars) =>
       LET target == IF last'.session_id # None THEN last'.session_id
                     ELSE current_session
       IN IF target = None
            THEN last'.raised = "ValueError" /\ files' = files
            ELSE /\ last'.raised # "ValueError"
                 /\ last'.sid = target
                 /\ last'.raised = "none" => AppendsTo(target, last'.data)]_vars

\* C25: every non-empty session history starts with session_start, holds at
\* most one session_start and at most one session_end, and has no event
\* after its session_end.
C25_Lifecycle ==
  \A id \in SessionIds :
    LET history == SessionHistory(files, id)
        Of(kind) == {i \in 1..Len(history) : history[i]["event"] = kind}
    IN history # <<>> =>
         /\ history[1]["event"] = "session_start"
         /\ Cardinality(Of("session_start")) <= 1
         /\ Cardinality(Of("session_end")) <= 1
         /\ \A i \in Of("session_end") : i = Len(history)

(***************************************************************************)
(* The logger on storage that can fail: open(filepath, 'a') in _append_log *)
(* raises OSError, which no operation catches.                             *)
(***************************************************************************)
\* the call self._append_log(session_file, data) when open() raises
AppendFails(op, session_id, sid, data) ==
  /\ clock' = clock + 1
  /\ last' = [op |-> op, session_id |-> session_id, sid |-> sid,
              data |-> data, raised |-> "OSError"]
  /\ UNCHANGED <<files, appended>>

\* start_session(session_id): current_session is assigned before the append
StartSessionFails(session_id) ==
  /\ clock < MaxEvents
  /\ current_session' = session_id
  /\ AppendFails("start_session", session_id, session_id,
                 StartData(session_id, clock))
  /\ UNCHANGED <<trustVars, runVars, writers>>

\* log_agent_report(agent_name, report, session_id)
LogAgentReportFails(agent_name, report, session_id) ==
  /\ clock < MaxEvents
  /\ LET sid == Resolve(session_id, current_session)
     IN /\ ~NoSid(sid)
        /\ AppendFails("log_agent_report", session_id, sid,
                       ReportData(sid, clock, agent_name, report))
  /\ UNCHANGED current_session
  /\ UNCHANGED <<trustVars, runVars, writers>>

\* log_trust_certificate(certificate, session_id)
LogTrustCertificateFails(certificate, session_id) ==
  /\ clock < MaxEvents
  /\ LET sid == Resolve(session_id, current_session)
     IN /\ ~NoSid(sid)
        /\ AppendFails("log_trust_certificate", session_id, sid,
                       CertificateData(sid, clock, certificate))
  /\ UNCHANGED current_session
  /\ UNCHANGED <<trustVars, runVars, writers>>

\* log_decision(decision, reason, user_input, final_response, session_id)
LogDecisionFails(decision, reason, user_input, final_response, session_id) ==
  /\ clock < MaxEvents
  /\ LET sid == Resolve(session_id, current_session)
     IN /\ ~NoSid(sid)
        /\ AppendFails("log_decision", session_id, sid,
                       DecisionData(sid, clock, decision, reason, user_input,
                                    final_response))
  /\ UNCHANGED current_session
  /\ UNCHANGED <<trustVars, runVars, writers>>

\* end_session(processing_time_ms, session_id): the exception leaves the
\* method before "self.current_session = None"
EndSessionFails(processing_time_ms, session_id) ==
  /\ clock < MaxEvents
  /\ LET sid == Resolve(session_id, current_session)
     IN /\ ~NoSid(sid)
        /\ AppendFails("end_session", session_id, sid,
                       EndData(sid, clock, processing_time_ms))
  /\ UNCHANGED current_session
  /\ UNCHANGED <<trustVars, runVars, writers>>

StorageNext ==
  \/ AuditNext
  \/ \E session_id \in SessionIds : StartSessionFails(session_id)
  \/ \E agent_name \in AgentNames, report \in ReportDicts,
        session_id \in SessionArgs :
       LogAgentReportFails(agent_name, report, session_id)
  \/ \E certificate \in CertificateDicts, session_id \in SessionArgs :
       LogTrustCertificateFails(certificate, session_id)
  \/ \E decision \in Decisions, session_id \in SessionArgs :
       LogDecisionFails(decision, "reason", "input", "response", session_id)
  \/ \E processing_time_ms \in ProcessingTimes, session_id \in SessionArgs :
       EndSessionFails(processing_time_ms, session_id)

SpecStorage == InitAudit /\ [][StorageNext]_vars

\* C26: a storage failure during an append reaches the caller and leaves the
\* logger as it was before the call: the files and the current session are
\* unchanged, so a failed start_session activates no session and a failed
\* end_session leaves the active session active.
C26_StorageFailure ==
  [][(last'.op \in WriteOps /\ vars' # vars /\ last'.raised = "OSError") =>
       /\ files' = files
       /\ current_session' = current_session]_vars

\* C27: end_session with an explicit session id other than the current
\* session leaves the current session current.
C27_EndOtherSession ==
  [][(Called("end_session") /\ last'.raised = "none"
        /\ current_session # None /\ last'.sid # current_session) =>
       current_session' = current_session]_vars

\* the session ids that start_session has been called with
StartedIds ==
  {id \in SessionIds :
     \E i \in 1..Len(appended[id]) : appended[id][i]["event"] = "session_start"}

\* C28: every id passed to start_session is listed unchanged by
\* get_all_sessions, and the history of every listed id is non-empty, also
\* for ids that contain "session_".
C28_IdsSurviveFileNaming ==
  LET listed == ListToSet(AllSessions(files))
  IN /\ StartedIds \subseteq listed
     /\ \A id \in listed : SessionHistory(files, id) # <<>>

(***************************************************************************)
(* Further properties of the trust calculator.                             *)
(***************************************************************************)
\* C29 as stated: with a non-empty critical_issues string or some score
\* < 20 the conflict list is empty, and conflicts are only reported together
\* with a weighted-average overall score.
C29_Original ==
  Done =>
    /\ (critical_issues # <<>> \/ ~AllAtLeastCritical) => output.conflicts = <<>>
    /\ output.conflicts # <<>> => output.overall_score = WeightedOverall(scores)
\* C29 as amended: with a critical_issues string that has a non-whitespace
\* character or some score < 20 the conflict list is empty, also when scores
\* differ by more than 40, and conflicts are only reported when neither
\* override fires, together with the weighted-average overall score.
C29_NoConflictsOnOverride ==
  Done =>
    /\ ~Weighted => output.conflicts = <<>>
    /\ output.conflicts # <<>> =>
         Weighted /\ output.overall_score = WeightedOverall(scores)
C29_Witness ==
  /\ Done
  /\ critical_issues = <<"x">>
  /\ ScoresAre(CRITICAL_THRESHOLD, MaxScore, MaxScore, MaxScore)
  /\ DetectConflicts(scores) # <<>>
  /\ output.conflicts = <<>>
  /\ output.decision = "block"

\* how strict a decision is: proceed < warn < block
Strictness(decision) ==
  IF decision = "proceed" THEN 0 ELSE IF decision = "warn" THEN 1 ELSE 2

\* the next higher score that is tried: every raise of a score is a chain of
\* raises to the next score, each made from a state that is checked
NextScore(s) == Min({raised \in Scores : raised > s})

\* C30: with critical_issues empty, raising one score while the other three
\* stay fixed never lowers the overall score and never makes the decision
\* stricter, across the override and weighted paths; and the decision is
\* block exactly when the overall score is < 30.
C30_Monotone ==
  (Done /\ critical_issues = <<>>) =>
    /\ output.decision = "block" <=> output.overall_score < BLOCK_THRESHOLD
    /\ \A name \in Dims :
         scores[name] < MaxScore =>
           LET higher == TrustRun([scores EXCEPT ![name] = NextScore(@)],
                                  critical_issues)
           IN /\ higher.overall_score >= output.overall_score
              /\ Strictness(higher.decision) <= Strictness(output.decision)
C30_Witness ==
  /\ Done
  /\ critical_issues = <<>>
  /\ ScoresAre(CRITICAL_THRESHOLD - 1, MaxScore, MaxScore, MaxScore)
  /\ output.overall_score = CRITICAL_THRESHOLD - 1
  /\ output.decision = "block"
  /\ TrustRun([scores EXCEPT !["privacy"] = CRITICAL_THRESHOLD],
              critical_issues).decision = "proceed"

====
